---- MODULE Spec2Model ----
(***************************************************************************)
(* Reconciliation and audit subsystem of mithrandir-unified-api:           *)
(* the SSE broadcast hub (lib/sse.ts), the audit store (command_audit and  *)
(* discrepancy_event tables with the append-only trigger), the command     *)
(* runner (commands.service.ts / commands.controller.ts) and the           *)
(* reconciliation poller (reconciliation.service.ts).                      *)
(*                                                                         *)
(* JavaScript runs each handler to its next await without interleaving,    *)
(* so one action is one such run: everything between two suspension points.*)
(***************************************************************************)
EXTENDS Integers, Sequences, FiniteSets, TLC

\* ---- bounds ----
MaxClients == 2      \* SSE connections opened over a behaviour
MaxCmds == 2         \* POST /commands/run requests over a behaviour
MaxPolls == 2        \* timer ticks over a behaviour
MaxDeletes == 1      \* DELETE statements issued against command_audit
MaxClock == 2        \* seconds the wall clock advances over a behaviour
MaxRestarts == 1     \* GET /api/services/:id/restart/stream requests over a behaviour
MaxInits == 2        \* calls of initializeReconciliation, the one of createServer included
DigestValues == 4    \* values a checksum can take (2^128 for md5, written small)

\* ---- inputs ----
NoTarget == "undefined"
RequestBodies ==
  {[commandId |-> "cmd-1", command |-> "restart", target |-> "svc-a"],
   [commandId |-> "cmd-2", command |-> "restart", target |-> NoTarget]}
JobLists == {<<>>, <<"completed", "failed", "pending">>}

\* the job lists an upstream can answer with: up to two jobs of the three statuses
JobStatuses == {"completed", "failed", "pending"}
ObservedLists == {<<>>} \cup [1..1 -> JobStatuses] \cup [1..2 -> JobStatuses]

\* what one upstream sample returns and how long the request took (ms)
Samples ==
  {[jobs |-> <<>>, latency |-> 3],
   [jobs |-> <<"completed", "failed", "pending">>, latency |-> 40]}

\* ---- error messages ----
ErrDeleteForbidden == "Audit log entries cannot be deleted"
ErrDbClosed == "The database connection is not open"
ErrNotInitialized == "Database not initialized. Call initializeDatabase() first."
ErrSse == "sse write failed"
ErrUpstream == "upstream request failed"
NoError == ""

VARIABLES
  clients,            \* lib/sse.ts: the Set of registered replies, in insertion order
  nextClient,         \* number of SSE connections opened so far
  dbOpen,             \* db.open of the better-sqlite3 handle
  command_audit,      \* rows of table command_audit
  discrepancy_event,  \* rows of table discrepancy_event
  nextUuid,           \* randomUUID(): the next fresh identifier
  cmds,               \* runCommand invocations, in request order
  polls,              \* pollReconciliation cycles, in tick order
  timers,             \* active setInterval handles
  pollingInterval,    \* _pollingInterval: the handle stored by initializeReconciliation
  lastPollPub,        \* the broadcast call of the cycle that settled last
  processUp,          \* FALSE once the process has died
  deleteLog,          \* outcome of the DELETE statements issued so far
  streams,            \* GET /reconciliation/stream: per connection, its socket and heartbeat timer
  lastBeat,           \* the heartbeat written last
  now,                \* the wall clock, in seconds
  shuttingDown,       \* gracefulShutdown has been entered
  session,            \* the getAuditLog calls of one client paging through a result
  callLog,            \* the last call made to the hub or the store outside a request
  restarts            \* the GET /api/services/:id/restart/stream responses, in order of arrival

vars == <<clients, nextClient, dbOpen, command_audit, discrepancy_event, nextUuid,
          cmds, polls, timers, pollingInterval, lastPollPub, processUp, deleteLog,
          streams, lastBeat, now, shuttingDown, session, callLog, restarts>>

hubVars == <<clients, nextClient, streams, lastBeat>>
ctxVars == <<now, shuttingDown, session, callLog, restarts>>
storeVars == <<dbOpen, command_audit, discrepancy_event, deleteLog>>
pollVars == <<polls, timers, pollingInterval, lastPollPub>>

\* ---------------------------------------------------------------------------
\* time and its text forms
\* ---------------------------------------------------------------------------

\* The calendar written small: a day has two seconds, and the date and the time
\* of day are one digit each.
Day(t) == t \div 2
SecondOfDay(t) == t % 2

\* character codes of the digits and of the separators of the two text forms
Digit(d) == 48 + d
CharCode == [space |-> 32, T |-> 84, Z |-> 90]

\* SQLite datetime('now'): 'YYYY-MM-DD HH:MM:SS'
SqlDatetime(t) == <<Digit(Day(t)), CharCode.space, Digit(SecondOfDay(t))>>

\* new Date().toISOString(): 'YYYY-MM-DDTHH:MM:SS.sssZ'
ToISOString(t) == <<Digit(Day(t)), CharCode.T, Digit(SecondOfDay(t)), CharCode.Z>>

\* the instant a text of either form denotes
InstantOf(text) == (text[1] - Digit(0)) * 2 + (text[3] - Digit(0))

\* SQLite compares TEXT values byte by byte (collation BINARY); of two texts
\* where one is a prefix of the other the shorter is the smaller.
TextLess(a, b) ==
  \E k \in 1..(Len(a) + 1) :
     /\ \A m \in 1..(k - 1) : m <= Len(b) /\ a[m] = b[m]
     /\ \/ k = Len(a) + 1 /\ k <= Len(b)
        \/ k <= Len(a) /\ k <= Len(b) /\ a[k] < b[k]

TextLeq(a, b) == a = b \/ TextLess(a, b)

\* ---------------------------------------------------------------------------
\* lib/sse.ts
\* ---------------------------------------------------------------------------

NoCall == [op |-> "", arg |-> 0, error |-> "", before |-> <<>>, after |-> <<>>,
           countBefore |-> 0, countAfter |-> 0, rowsKept |-> TRUE]

SeqToSet(s) == {s[k] : k \in 1..Len(s)}

\* JSON.stringify(data): the serialized form that is put on the wire
Stringify(data) == <<"json", data>>

\* clients.add(client): a Set keeps insertion order and holds no duplicates
addSseClient(cl, c) == IF c \in SeqToSet(cl) THEN cl ELSE Append(cl, c)

\* a removeSseClient that forgets the delete
removeSseClientKept(cl, c) == cl

\* the array registry spliced at indexOf(client) without the test for -1:
\* splice(-1, 1) drops the last element
removeSseClientSplice(cl, c) ==
  IF c \in SeqToSet(cl) THEN SelectSeq(cl, LAMBDA x : x # c)
  ELSE SubSeq(cl, 1, Len(cl) - 1)

\* clients.delete(client)
removeSseClient(cl, c) == SelectSeq(cl, LAMBDA x : x # c)

getClientCount(cl) == Len(cl)

\* The clients whose sse() call returned: the loop has no try/catch, so the
\* first throwing client.sse (position throwAt, 0 = none throws) ends it.
BroadcastReach(cl, throwAt) ==
  IF throwAt = 0 THEN cl ELSE SubSeq(cl, 1, throwAt - 1)

\* Whether broadcast() itself throws to its caller
BroadcastThrows(throwAt) == throwAt # 0

\* broadcast(event, data): for (const client of clients) client.sse({event, data: JSON.stringify(data)})
broadcast(cl, event, data, throwAt) ==
  LET reach == BroadcastReach(cl, throwAt)
  IN [event  |-> event,
      data   |-> data,
      regs   |-> cl,
      sentTo |-> [k \in 1..Len(reach) |->
                    [client |-> reach[k], event |-> event, data |-> Stringify(data)]],
      failed |-> IF throwAt = 0 THEN 0 ELSE cl[throwAt],
      threw  |-> BroadcastThrows(throwAt)]

NoPub == [event |-> "", data |-> <<>>, regs |-> <<>>, sentTo |-> <<>>, failed |-> 0, threw |-> FALSE]

\* broadcastCommandUpdate(data)
broadcastCommandUpdate(cl, data, throwAt) == broadcast(cl, "command.status", data, throwAt)

\* ---------------------------------------------------------------------------
\* schemas/reconciliation.schema.ts and the statements run against the store
\* ---------------------------------------------------------------------------

Outcomes == {"success", "failure", "timeout", "running"}
TerminalOutcomes == {"success", "failure", "timeout"}
NoLogs == <<"null">>

\* DELETE FROM command_audit WHERE id = ? with no trigger installed
SqlDeleteUnchecked(rows, id) ==
  [rows |-> {r \in rows : r.id # id}, error |-> NoError]

\* DELETE FROM command_audit WHERE id = ? under the BEFORE DELETE trigger
\* command_audit_append_only: RAISE(ABORT, ...) fires for each matched row and
\* rolls the statement back; a statement matching no row deletes nothing.
SqlDelete(rows, id) ==
  IF \E r \in rows : r.id = id
    THEN [rows |-> rows, error |-> ErrDeleteForbidden]
    ELSE [rows |-> rows, error |-> NoError]

\* INSERT INTO command_audit (id, actor, action_type, target, outcome) VALUES (...)
\* the column timestamp takes its default, datetime('now')
SqlInsertCommandAudit(rows, id, actor, action_type, target, outcome, clock) ==
  rows \cup {[id |-> id, timestamp |-> SqlDatetime(clock), actor |-> actor,
              action_type |-> action_type, target |-> target, outcome |-> outcome,
              logs_json |-> NoLogs]}

\* an INSERT OR REPLACE in place of the UPDATE: a missing id gets a row
SqlUpsertCommandAudit(rows, outcome, logs_json, id) ==
  IF \E r \in rows : r.id = id
  THEN {IF r.id = id THEN [r EXCEPT !.outcome = outcome, !.logs_json = logs_json] ELSE r : r \in rows}
  ELSE rows \cup {[id |-> id, timestamp |-> SqlDatetime(0), actor |-> "", action_type |-> "",
                   target |-> NoTarget, outcome |-> outcome, logs_json |-> logs_json]}

\* UPDATE command_audit SET outcome = ?, logs_json = ? WHERE id = ?
SqlUpdateCommandAudit(rows, outcome, logs_json, id) ==
  {IF r.id = id THEN [r EXCEPT !.outcome = outcome, !.logs_json = logs_json] ELSE r : r \in rows}

\* the same statement binding a constant for latency_ms
SqlInsertDiscrepancyNoLatency(rows, event, clock) ==
  rows \cup {[id |-> event.id, timestamp |-> SqlDatetime(clock), service |-> event.service,
              status |-> event.status, counts_json |-> event.counts_json,
              checksum |-> event.checksum, latency_ms |-> 0]}

\* INSERT INTO discrepancy_event (id, service, status, counts_json, checksum, latency_ms)
\* VALUES (event.id, ...): event.timestamp is not bound, the column takes its
\* default, datetime('now')
SqlInsertDiscrepancy(rows, event, clock) ==
  rows \cup {[id |-> event.id, timestamp |-> SqlDatetime(clock), service |-> event.service,
              status |-> event.status, counts_json |-> event.counts_json,
              checksum |-> event.checksum, latency_ms |-> event.latency_ms]}

\* ---------------------------------------------------------------------------
\* what one invocation did, in program order
\* ---------------------------------------------------------------------------

\* a broadcast call and whether it returned
PubEntry(phase, pub) ==
  [op |-> "publish", phase |-> phase, outcome |-> "", ok |-> ~pub.threw]

\* an INSERT statement and whether it ran
InsertEntry(ok) ==
  [op |-> "insert", phase |-> "", outcome |-> "running", ok |-> ok]

\* an UPDATE statement and whether it ran
UpdateEntry(outcome, ok) ==
  [op |-> "update", phase |-> "", outcome |-> outcome, ok |-> ok]

\* the handler's reply.status(code).send(...)
ReplyEntry(code) ==
  [op |-> "reply", phase |-> "", outcome |-> IF code = 202 THEN "queued" ELSE "error", ok |-> TRUE]

SuccessLogs(command) == << <<"Command", command, "completed successfully.">> >>
FailureLogs(command, message) == << <<"Command", command, "failed.">>, <<message>> >>

\* ---------------------------------------------------------------------------
\* modules/reconciliation/reconciliation.service.ts: getAuditLog
\* ---------------------------------------------------------------------------

ALLOWED_SORT_COLUMNS == {"timestamp", "actor", "action_type", "target", "outcome"}
ALLOWED_SORT_ORDERS == {"asc", "desc"}

\* an optional string parameter that is absent, or empty: both are falsy
NoFilter == ""
\* the same for a date-time parameter
NoDate == <<>>

\* the query string of GET /reconciliation/audit after schema defaults
AuditQuery(limit, sortBy, sortOrder, actionType, target, startDate, endDate) ==
  [page |-> 1, limit |-> limit, sortBy |-> sortBy, sortOrder |-> sortOrder,
   actionType |-> actionType, target |-> target, startDate |-> startDate, endDate |-> endDate]

\* the requests a client starts paging with; date-time bounds are sent as
\* ISO strings, the format the route's schema names
Queries ==
  {AuditQuery(1, "timestamp", "desc", NoFilter, NoFilter, NoDate, NoDate),
   AuditQuery(2, "timestamp", "desc", NoFilter, NoFilter, NoDate, NoDate),
   AuditQuery(2, "outcome", "asc", NoFilter, NoFilter, NoDate, NoDate),
   AuditQuery(2, "id; DROP TABLE command_audit", "sideways", NoFilter, NoFilter, NoDate, NoDate),
   AuditQuery(2, "timestamp", "desc", "restart", "svc-a", NoDate, NoDate),
   AuditQuery(2, "timestamp", "desc", NoFilter, NoFilter, ToISOString(1), ToISOString(2))}

\* lines 79-80 without the allow-list: the request's sortBy goes into the statement
SortColumnUnchecked(q) == q.sortBy

\* ALLOWED_SORT_COLUMNS.includes(querySortBy) ? querySortBy : 'timestamp'
SortColumn(q) == IF q.sortBy \in ALLOWED_SORT_COLUMNS THEN q.sortBy ELSE "timestamp"

\* ALLOWED_SORT_ORDERS.includes(querySortOrder) ? querySortOrder : 'desc'
SortOrder(q) == IF q.sortOrder \in ALLOWED_SORT_ORDERS THEN q.sortOrder ELSE "desc"

\* the WHERE clause: one comparison per supplied filter, joined by AND; the
\* timestamp comparisons are comparisons of TEXT
Where(q, r) ==
  /\ q.actionType # NoFilter => r.action_type = q.actionType
  /\ q.target # NoFilter => r.target = q.target
  /\ q.startDate # NoDate => TextLeq(q.startDate, r.timestamp)
  /\ q.endDate # NoDate => TextLeq(r.timestamp, q.endDate)

Matching(rows, q) == {r \in rows : Where(q, r)}

\* the statement text the parameters do not cover: ORDER BY ${sortBy} ${sortOrder}
AuditSql(q) == [orderBy |-> SortColumn(q), direction |-> SortOrder(q)]

\* the order of the string values the columns hold under collation BINARY
Collation ==
  "failure" :> 1 @@ "restart" :> 2 @@ "running" :> 3 @@ "success" :> 4 @@
  "svc-a" :> 5 @@ "system" :> 6 @@ "timeout" :> 7 @@ "unknown" :> 8

\* the value ORDER BY compares for row r; a name that is no column gives none
ColumnKey(r, col) ==
  IF col = "timestamp" THEN r.timestamp
  ELSE IF col \in DOMAIN r THEN <<Collation[r[col]]>>
  ELSE <<>>

\* The row sequences ORDER BY col dir may produce for a set of rows: sorted by
\* the key, rows with equal keys in an order SQL leaves undefined. SQLite sorts
\* all matching rows before it applies LIMIT and OFFSET, so over an unchanged
\* table the same statement puts them in the same order whatever values are
\* bound to LIMIT and OFFSET.
OrderedResults(rows, col, dir) ==
  {ord \in [1..Cardinality(rows) -> rows] :
     /\ \A a \in DOMAIN ord, b \in DOMAIN ord : a # b => ord[a] # ord[b]
     /\ \A a \in DOMAIN ord, b \in DOMAIN ord :
           a < b => IF dir = "asc"
                      THEN TextLeq(ColumnKey(ord[a], col), ColumnKey(ord[b], col))
                      ELSE TextLeq(ColumnKey(ord[b], col), ColumnKey(ord[a], col))}

\* LIMIT ? OFFSET ? applied to the ordered rows
LimitOffset(ord, limit, offset) ==
  SubSeq(ord, offset + 1, IF offset + limit < Len(ord) THEN offset + limit ELSE Len(ord))

\* Math.floor in the place of Math.ceil
Floor(total, limit) == total \div limit

\* Math.ceil(total / limit) for limit >= 1
Ceil(total, limit) == (total + limit - 1) \div limit

\* getAuditLog(query), ord being the order the engine gave the matching rows
getAuditLog(rows, q, ord) ==
  LET offset == (q.page - 1) * q.limit
      total == Cardinality(Matching(rows, q))
  IN [data |-> LimitOffset(ord, q.limit, offset),
      meta |-> [page |-> q.page, limit |-> q.limit, total |-> total,
                totalPages |-> Ceil(total, q.limit)]]

NoSession ==
  [open |-> FALSE, query |-> AuditQuery(1, "", "", NoFilter, NoFilter, NoDate, NoDate),
   sql |-> [orderBy |-> "", direction |-> ""], order |-> <<>>, pages |-> <<>>,
   meta |-> [page |-> 0, limit |-> 0, total |-> 0, totalPages |-> 0]]

\* GET /reconciliation/audit: the handler answers with getAuditLog(request.query).
\* A request for page 1 starts a client's pass over the result, a request for
\* the next page continues it.
AuditRequest(q, ord) ==
  /\ processUp
  /\ dbOpen
  /\ ord \in OrderedResults(Matching(command_audit, q), AuditSql(q).orderBy, AuditSql(q).direction)
  /\ LET res == getAuditLog(command_audit, q, ord)
     IN session' = [open |-> TRUE, query |-> q, sql |-> AuditSql(q), order |-> ord,
                    pages |-> IF q.page = 1 THEN <<res.data>> ELSE Append(session.pages, res.data),
                    meta |-> res.meta]
  /\ UNCHANGED <<now, shuttingDown, callLog, restarts, hubVars, storeVars, nextUuid, cmds, pollVars, processUp>>

\* a second of wall-clock time passes
ClockTick ==
  /\ processUp
  /\ now < MaxClock
  /\ now' = now + 1
  /\ UNCHANGED <<shuttingDown, session, callLog, restarts, hubVars, storeVars, nextUuid, cmds, pollVars, processUp>>

\* ---------------------------------------------------------------------------
\* modules/commands/commands.service.ts: runCommand
\* ---------------------------------------------------------------------------

CommandPayload(commandId, phase, logs) ==
  [commandId |-> commandId, phase |-> phase, logs |-> logs]

\* catch (error) { broadcast phase error; UPDATE outcome = failure }: a throw of
\* either statement leaves the catch block and rejects runCommand's promise.
RunCommandCatch(cl, open, rows, commandId, command, auditId, message, te) ==
  LET logs == FailureLogs(command, message)
      pubE == broadcastCommandUpdate(cl, CommandPayload(commandId, "error", logs), te)
  IN IF pubE.threw
       THEN [trace |-> <<PubEntry("error", pubE)>>, rows |-> rows, pc |-> "rejected"]
     ELSE IF ~open
       THEN [trace |-> <<PubEntry("error", pubE), UpdateEntry("failure", FALSE)>>,
             rows |-> rows, pc |-> "rejected"]
     ELSE [trace |-> <<PubEntry("error", pubE), UpdateEntry("failure", TRUE)>>,
           rows |-> SqlUpdateCommandAudit(rows, "failure", Stringify(logs), auditId),
           pc |-> "resolved"]

\* runCommand from its call to the await of the simulated work (lines 10-25):
\* publish queued, INSERT the running row, then inside try publish running.
RunCommandStart(cl, open, rows, uuid, commandId, command, target, clock, tq, tr, te) ==
  LET pubQ == broadcastCommandUpdate(cl, CommandPayload(commandId, "queued", << <<"Command received">> >>), tq)
      pubR == broadcastCommandUpdate(cl, CommandPayload(commandId, "running", << <<"Executing command", command>> >>), tr)
      inserted == SqlInsertCommandAudit(rows, uuid, "system", command,
                                        IF target = NoTarget THEN "unknown" ELSE target, "running",
                                        clock)
      caught == RunCommandCatch(cl, open, inserted, commandId, command, uuid, ErrSse, te)
  IN IF pubQ.threw
       THEN [trace |-> <<PubEntry("queued", pubQ)>>, rows |-> rows, pc |-> "rejected", auditId |-> 0]
     ELSE IF ~open
       THEN [trace |-> <<PubEntry("queued", pubQ), InsertEntry(FALSE)>>,
             rows |-> rows, pc |-> "rejected", auditId |-> uuid]
     ELSE IF ~pubR.threw
       THEN [trace |-> <<PubEntry("queued", pubQ), InsertEntry(TRUE), PubEntry("running", pubR)>>,
             rows |-> inserted, pc |-> "awaiting", auditId |-> uuid]
     ELSE [trace |-> <<PubEntry("queued", pubQ), InsertEntry(TRUE), PubEntry("running", pubR)>> \o caught.trace,
           rows |-> caught.rows, pc |-> caught.pc, auditId |-> uuid]

\* runCommand after the simulated work has resolved (lines 27-50): publish
\* success, then UPDATE outcome = success; a throw of either enters the catch.
RunCommandResume(cl, open, rows, c, ts, te) ==
  LET logs == SuccessLogs(c.command)
      pubS == broadcastCommandUpdate(cl, CommandPayload(c.commandId, "success", logs), ts)
      caughtPub == RunCommandCatch(cl, open, rows, c.commandId, c.command, c.auditId, ErrSse, te)
      caughtDb == RunCommandCatch(cl, open, rows, c.commandId, c.command, c.auditId, ErrDbClosed, te)
  IN IF pubS.threw
       THEN [trace |-> <<PubEntry("success", pubS)>> \o caughtPub.trace,
             rows |-> caughtPub.rows, pc |-> caughtPub.pc]
     ELSE IF ~open
       THEN [trace |-> <<PubEntry("success", pubS), UpdateEntry("success", FALSE)>> \o caughtDb.trace,
             rows |-> caughtDb.rows, pc |-> caughtDb.pc]
     ELSE [trace |-> <<PubEntry("success", pubS), UpdateEntry("success", TRUE)>>,
           rows |-> SqlUpdateCommandAudit(rows, "success", Stringify(logs), c.auditId),
           pc |-> "resolved"]

\* A promise nobody awaits was rejected: the runtime's unhandled-rejection
\* policy decides whether the process dies (the default) or only warns.
UnhandledRejection(pc, dies) == IF pc = "rejected" THEN ~dies ELSE TRUE

\* POST /commands/run (commands.controller.ts): runCommand is called without
\* await, runs to its first await, and the handler replies 202.
PostCommandsRun(commandId, command, target, tq, tr, te, dies) ==
  /\ processUp
  /\ Len(cmds) < MaxCmds
  /\ LET r == RunCommandStart(clients, dbOpen, command_audit, nextUuid,
                              commandId, command, target, now, tq, tr, te)
     IN /\ cmds' = Append(cmds, [commandId |-> commandId, command |-> command, target |-> target,
                                 auditId |-> r.auditId, pc |-> r.pc,
                                 trace |-> r.trace \o <<ReplyEntry(202)>>,
                                 opCompleted |-> FALSE, reply |-> 202])
        /\ command_audit' = r.rows
        /\ nextUuid' = IF r.auditId = 0 THEN nextUuid ELSE nextUuid + 1
        /\ processUp' = UnhandledRejection(r.pc, dies)
  /\ UNCHANGED <<ctxVars, hubVars, dbOpen, discrepancy_event, deleteLog, pollVars>>

\* The 2000 ms timer of the simulated work fires and runCommand continues.
CommandWorkDone(i, ts, te, dies) ==
  /\ processUp
  /\ cmds[i].pc = "awaiting"
  /\ LET r == RunCommandResume(clients, dbOpen, command_audit, cmds[i], ts, te)
     IN /\ cmds' = [cmds EXCEPT ![i].pc = r.pc, ![i].trace = cmds[i].trace \o r.trace,
                                ![i].opCompleted = TRUE]
        /\ command_audit' = r.rows
        /\ processUp' = UnhandledRejection(r.pc, dies)
  /\ UNCHANGED <<ctxVars, hubVars, dbOpen, discrepancy_event, deleteLog, nextUuid, pollVars>>

\* ---------------------------------------------------------------------------
\* modules/reconciliation/reconciliation.service.ts: the poller and the store handle
\* ---------------------------------------------------------------------------

\* a tally that does not look at the status: jobs.length for every status
CountAny(jobs, status) == Len(jobs)

\* jobs.filter((j) => j.status === status).length
CountStatus(jobs, status) == Cardinality({k \in 1..Len(jobs) : jobs[k] = status})

\* counts = {total, completed, failed, pending} tallied over the job list
Counts(jobs) ==
  [total |-> Len(jobs),
   completed |-> CountStatus(jobs, "completed"),
   failed |-> CountStatus(jobs, "failed"),
   pending |-> CountStatus(jobs, "pending")]

\* the serialized text of a job list, one code per job
StatusCode == [completed |-> 1, failed |-> 2, pending |-> 3]

RECURSIVE DigestFold(_, _)
\* a digest of fixed width folded over a text from its start
DigestFold(h, text) ==
  IF text = <<>> THEN h
  ELSE DigestFold((3 * h + StatusCode[Head(text)]) % DigestValues, Tail(text))

\* crypto.createHash('md5').update(s).digest('hex'): the digest of s, a value
\* of fixed width whatever the length of s
Md5(s) == DigestFold(1, s[2])

\* the event object with its id mixed into the checksum
DiscrepancyEventSalted(id, jobs, latency, clock) ==
  [id |-> id, timestamp |-> ToISOString(clock),
   service |-> "transcription-palantir", status |-> "verified",
   counts_json |-> Stringify(Counts(jobs)),
   checksum |-> (Md5(Stringify(jobs)) + id) % DigestValues,
   latency_ms |-> latency]

\* the event object built from one sample (lines 140-148)
DiscrepancyEvent(id, jobs, latency, clock) ==
  [id |-> id, timestamp |-> ToISOString(clock),
   service |-> "transcription-palantir", status |-> "verified",
   counts_json |-> Stringify(Counts(jobs)),
   checksum |-> Md5(Stringify(jobs)),
   latency_ms |-> latency]

\* pollReconciliation with its try/catch removed: an error leaves the function
PollUncaught(pc) == IF pc = "failed" THEN "rejected" ELSE pc

\* the catch of pollReconciliation logs the error and the function returns
PollCaught(pc) == pc

\* pollReconciliation after apiClient.get('/jobs') has settled (lines 126-161)
PollSettle(cl, open, rows, uuid, ok, jobs, latency, clock, tb) ==
  LET event == DiscrepancyEvent(uuid, jobs, latency, clock)
      pub == broadcast(cl, "reconciliation.update", event, tb)
  IN IF ~ok
       THEN [trace |-> <<>>, rows |-> rows, pc |-> PollCaught("failed"), error |-> ErrUpstream,
             eventId |-> 0, pub |-> NoPub]
     ELSE IF ~open
       THEN [trace |-> <<InsertEntry(FALSE)>>, rows |-> rows, pc |-> PollCaught("failed"),
             error |-> ErrDbClosed, eventId |-> uuid, pub |-> NoPub]
     ELSE [trace |-> <<InsertEntry(TRUE), PubEntry("", pub)>>,
           rows |-> SqlInsertDiscrepancy(rows, event, clock),
           pc |-> IF pub.threw THEN PollCaught("failed") ELSE "done",
           error |-> IF pub.threw THEN ErrSse ELSE NoError, eventId |-> uuid, pub |-> pub]

\* setInterval(pollReconciliation, 5000) fires: a cycle starts and suspends on
\* await apiClient.get('/jobs'); nothing checks for a cycle still in flight.
PollTick(t) ==
  /\ processUp
  /\ t \in timers
  /\ Len(polls) < MaxPolls
  /\ polls' = Append(polls, [pc |-> "sampling", trace |-> <<>>, error |-> NoError,
                             eventId |-> 0, jobs |-> <<>>, timer |-> t,
                             inShutdown |-> shuttingDown,
                             failedBefore |-> Cardinality({j \in 1..Len(polls) : polls[j].pc = "failed"})])
  /\ UNCHANGED <<ctxVars, hubVars, storeVars, nextUuid, cmds, timers, pollingInterval, lastPollPub, processUp>>

\* The upstream request of cycle j settles (response or error/timeout).
PollResponse(j, ok, jobs, latency, tb, dies) ==
  /\ processUp
  /\ polls[j].pc = "sampling"
  /\ LET r == PollSettle(clients, dbOpen, discrepancy_event, nextUuid, ok, jobs, latency, now, tb)
     IN /\ polls' = [polls EXCEPT ![j].pc = r.pc, ![j].trace = r.trace,
                                  ![j].error = r.error, ![j].eventId = r.eventId,
                                  ![j].jobs = IF ok THEN jobs ELSE <<>>]
        /\ lastPollPub' = [cycle |-> j, pub |-> r.pub]
        /\ discrepancy_event' = r.rows
        /\ nextUuid' = IF r.eventId = 0 THEN nextUuid ELSE nextUuid + 1
        /\ processUp' = UnhandledRejection(r.pc, dies)
  /\ UNCHANGED <<ctxVars, hubVars, dbOpen, command_audit, deleteLog, cmds, timers, pollingInterval>>

\* initializeReconciliation() is called again (another createServer in the
\* same process): db = new Database(dbPath) on the same file, the CREATE ... IF
\* NOT EXISTS statements change nothing, and _pollingInterval is overwritten
\* with a new interval; the one it held is not cleared.
InitializeReconciliation ==
  /\ processUp
  /\ pollingInterval < MaxInits
  /\ dbOpen' = TRUE
  /\ timers' = timers \cup {pollingInterval + 1}
  /\ pollingInterval' = pollingInterval + 1
  /\ UNCHANGED <<ctxVars, hubVars, command_audit, discrepancy_event, deleteLog, nextUuid, cmds,
                 polls, lastPollPub, processUp>>

\* stopPolling(): if (_pollingInterval) clearInterval(_pollingInterval)
StopPolling ==
  /\ processUp
  /\ timers' = IF pollingInterval # 0 THEN timers \ {pollingInterval} ELSE timers
  /\ UNCHANGED <<ctxVars, hubVars, storeVars, nextUuid, cmds, polls, pollingInterval, lastPollPub, processUp>>

\* closeDatabase(): if (db && db.open) db.close()
CloseDatabase ==
  /\ processUp
  /\ dbOpen' = FALSE
  /\ UNCHANGED <<ctxVars, hubVars, command_audit, discrepancy_event, deleteLog, nextUuid, cmds, pollVars, processUp>>

\* A DELETE statement is run against command_audit through the store handle.
DeleteCommandAudit(id) ==
  /\ processUp
  /\ deleteLog.count < MaxDeletes
  /\ LET r == IF dbOpen THEN SqlDelete(command_audit, id)
                        ELSE [rows |-> command_audit, error |-> ErrDbClosed]
     IN /\ command_audit' = r.rows
        /\ deleteLog' = [count |-> deleteLog.count + 1,
                         matched |-> \E row \in command_audit : row.id = id,
                         before |-> Cardinality(command_audit),
                         after |-> Cardinality(r.rows),
                         kept |-> command_audit \subseteq r.rows,
                         error |-> r.error]
  /\ UNCHANGED <<ctxVars, hubVars, dbOpen, discrepancy_event, nextUuid, cmds, pollVars, processUp>>

\* A DELETE statement is run against discrepancy_event through the store
\* handle: the schema installs no trigger on this table.
DeleteDiscrepancyEvent(id) ==
  /\ processUp
  /\ dbOpen
  /\ \E r \in discrepancy_event : r.id = id
  /\ discrepancy_event' = SqlDeleteUnchecked(discrepancy_event, id).rows
  /\ UNCHANGED <<ctxVars, hubVars, dbOpen, command_audit, deleteLog, nextUuid, cmds, pollVars, processUp>>

\* ---------------------------------------------------------------------------
\* server.ts: gracefulShutdown
\* ---------------------------------------------------------------------------

\* SIGTERM or SIGINT arrives: gracefulShutdown logs and suspends on
\* await fastify.close(); it calls neither stopPolling nor closeDatabase.
ShutdownSignal ==
  /\ processUp
  /\ ~shuttingDown
  /\ shuttingDown' = TRUE
  /\ UNCHANGED <<now, session, callLog, restarts, hubVars, storeVars, nextUuid, cmds, pollVars, processUp>>

\* fastify.close() has settled: process.exit(0), or process.exit(1) from the catch
ShutdownExit ==
  /\ processUp
  /\ shuttingDown
  /\ processUp' = FALSE
  /\ UNCHANGED <<ctxVars, hubVars, storeVars, nextUuid, cmds, pollVars>>

\* The finalizing statement of runCommand, UPDATE command_audit SET outcome = ?,
\* logs_json = ? WHERE id = ?, is run once more for a row that is already
\* terminal, with another outcome.
FinalizeAgain(id, outcome) ==
  /\ processUp
  /\ dbOpen
  /\ \E r \in command_audit : r.id = id /\ r.outcome \in TerminalOutcomes /\ r.outcome # outcome
  /\ command_audit' = SqlUpdateCommandAudit(command_audit, outcome,
                                             Stringify(<< <<"finalized again">> >>), id)
  /\ UNCHANGED <<ctxVars, hubVars, dbOpen, discrepancy_event, deleteLog, nextUuid, cmds, pollVars, processUp>>

\* The same statement run with an id that no row of command_audit has: the
\* UPDATE matches nothing and run() returns with changes = 0.
FinalizeUnknown(id, outcome) ==
  /\ processUp
  /\ dbOpen
  /\ ~\E r \in command_audit : r.id = id
  /\ command_audit' = SqlUpdateCommandAudit(command_audit, outcome,
                                             Stringify(<< <<"finalized">> >>), id)
  /\ callLog' = [op |-> "finalize", arg |-> id, error |-> NoError,
                  before |-> <<>>, after |-> <<>>,
                  countBefore |-> Cardinality(command_audit),
                  countAfter |-> Cardinality(command_audit'),
                  rowsKept |-> command_audit' = command_audit]
  /\ UNCHANGED <<now, shuttingDown, session, restarts, hubVars, dbOpen, discrepancy_event, deleteLog,
                 nextUuid, cmds, pollVars, processUp>>

\* ---------------------------------------------------------------------------
\* modules/reconciliation/reconciliation.controller.ts: GET /reconciliation/stream
\* ---------------------------------------------------------------------------

\* a client connects and the source generator starts: addSseClient(reply),
\* heartbeatInterval = setInterval(..., 15000)
SseConnect ==
  /\ processUp
  /\ nextClient < MaxClients
  /\ clients' = addSseClient(clients, nextClient + 1)
  /\ nextClient' = nextClient + 1
  /\ streams' = Append(streams, [open |-> TRUE, heartbeat |-> TRUE])
  /\ UNCHANGED <<ctxVars, lastBeat, storeVars, nextUuid, cmds, pollVars, processUp>>

\* the connection of client c ends (request.raw ends or errors, the loop over
\* it is left): finally { removeSseClient(reply); clearInterval(heartbeatInterval) }
SseDisconnect(c) ==
  /\ processUp
  /\ c \in SeqToSet(clients)
  /\ clients' = removeSseClient(clients, c)
  /\ streams' = [streams EXCEPT ![c] = [open |-> FALSE, heartbeat |-> FALSE]]
  /\ UNCHANGED <<ctxVars, lastBeat, nextClient, storeVars, nextUuid, cmds, pollVars, processUp>>

\* removeSseClient(reply) is called for a handle that is not in the registry:
\* one that was never added, or one that was removed before
SseRemoveUnregistered(c) ==
  /\ processUp
  /\ c \in 1..MaxClients
  /\ c \notin SeqToSet(clients)
  /\ clients' = removeSseClient(clients, c)
  /\ callLog' = [op |-> "removeSseClient", arg |-> c, error |-> NoError,
                  before |-> clients, after |-> clients',
                  countBefore |-> getClientCount(clients),
                  countAfter |-> getClientCount(clients'),
                  rowsKept |-> TRUE]
  /\ UNCHANGED <<now, shuttingDown, session, restarts, nextClient, streams, lastBeat, storeVars,
                 nextUuid, cmds, pollVars, processUp>>

\* the heartbeat interval of connection c fires: reply.sse({event: 'heartbeat', ...})
SseHeartbeat(c) ==
  /\ processUp
  /\ c \in 1..Len(streams)
  /\ streams[c].heartbeat
  /\ lastBeat' = [client |-> c, open |-> streams[c].open]
  /\ UNCHANGED <<ctxVars, clients, nextClient, streams, storeVars, nextUuid, cmds, pollVars, processUp>>

\* ---------------------------------------------------------------------------
\* modules/services/systemd.ts and services.controller.ts:
\* GET /api/services/:id/restart/stream
\* ---------------------------------------------------------------------------

HEALTH_CHECK_MAX_ATTEMPTS == 10
DashboardDelaySeconds == 5

ALLOWED_SERVICES == {"transcription-palantir", "mithrandir-unified-api", "mithrandir-admin"}

\* the ids requested: two listed services, the dashboard, and one not listed
ServiceIds == {"transcription-palantir", "mithrandir-unified-api", "mithrandir-admin", "not-a-service"}

\* ServiceState.status as getServiceState derives it from ActiveState
ServiceStatuses == {"running", "stopped", "failed", "unknown"}

\* validateServiceId(serviceId) returns a unit name; it throws for other ids
validateServiceId(id) == id \in ALLOWED_SERVICES

\* reply.raw.write(`event: restart-progress\ndata: ${JSON.stringify(progress)}\n\n`)
ProgressFrame(phase) == [event |-> "restart-progress", phase |-> phase]

\* reply.raw.write('event: done\ndata: {}\n\n')
DoneFrame == [event |-> "done", phase |-> ""]

\* a restart that reports success whatever the health check returned
TerminalPhaseAlwaysSuccess(status) == "success"

\* if (afterState.status === 'running') yield success, else yield error
TerminalPhase(status) == IF status = "running" THEN "success" ELSE "error"

NoStatus == ""

\* everything but the restart streams
restVars == <<now, shuttingDown, session, callLog, hubVars, storeVars, nextUuid, cmds, pollVars>>

\* pollForHealthyState returned afterState to restartServiceWithProgress: the
\* success event ends the generator and the handler writes done and ends the
\* reply; otherwise the generator awaits getJournalLogs
HealthReturned(r, status) ==
  IF TerminalPhase(status) = "success"
    THEN [r EXCEPT !.after = status, !.pc = "ended",
                   !.frames = r.frames \o <<ProgressFrame("success"), DoneFrame>>]
    ELSE [r EXCEPT !.after = status, !.pc = "journal", !.failed = "health"]

\* The request arrives: writeHead(200), the generator is chosen by id and run
\* to its first await. restartDashboardWithDelay yields stopping and awaits the
\* countdown timer; restartServiceWithProgress throws from validateServiceId
\* (the handler's catch writes one error frame and ends the reply) or awaits
\* getServiceState.
RestartStreamOpen(id) ==
  /\ processUp
  /\ Len(restarts) < MaxRestarts
  /\ LET r == [id |-> id, pc |-> "", frames |-> <<>>, attempts |-> 0, countdown |-> 0,
                before |-> NoStatus, after |-> NoStatus, failed |-> "", restartTimer |-> FALSE]
     IN restarts' = Append(restarts,
          IF id = "mithrandir-admin"
            THEN [r EXCEPT !.pc = "countdown", !.countdown = DashboardDelaySeconds,
                           !.frames = <<ProgressFrame("stopping")>>]
          ELSE IF ~validateServiceId(id)
            THEN [r EXCEPT !.pc = "ended", !.failed = "validate",
                           !.frames = <<ProgressFrame("error")>>]
          ELSE [r EXCEPT !.pc = "beforeState"])
  /\ UNCHANGED <<restVars, processUp>>

\* getServiceState settles (it catches its own errors and returns unknown):
\* yield stopping with beforeState, then await stopService
RestartBeforeState(i, status) ==
  /\ processUp
  /\ restarts[i].pc = "beforeState"
  /\ restarts' = [restarts EXCEPT ![i].before = status, ![i].pc = "stopping",
                                   ![i].frames = @ \o <<ProgressFrame("stopping")>>]
  /\ UNCHANGED <<restVars, processUp>>

\* systemctl stop settles: yield starting and await startService; a rejection
\* enters the catch, which awaits getJournalLogs. Stopping the unit this
\* process runs under ends the process with the response unfinished.
RestartStopSettled(i, outcome) ==
  /\ processUp
  /\ restarts[i].pc = "stopping"
  /\ outcome = "killed" => restarts[i].id = "mithrandir-unified-api"
  /\ restarts' = [restarts EXCEPT ![i] =
        IF outcome = "ok"
          THEN [@ EXCEPT !.pc = "starting", !.frames = @ \o <<ProgressFrame("starting")>>]
        ELSE IF outcome = "failed"
          THEN [@ EXCEPT !.pc = "journal", !.failed = "stop"]
        ELSE [@ EXCEPT !.pc = "cut"]]
  /\ processUp' = (outcome # "killed")
  /\ UNCHANGED restVars

\* systemctl start settles: yield health-check and enter pollForHealthyState,
\* which awaits getServiceState; a rejection enters the catch
RestartStartSettled(i, ok) ==
  /\ processUp
  /\ restarts[i].pc = "starting"
  /\ restarts' = [restarts EXCEPT ![i] =
        IF ok THEN [@ EXCEPT !.pc = "polling", !.attempts = 0,
                             !.frames = @ \o <<ProgressFrame("health-check")>>]
        ELSE [@ EXCEPT !.pc = "journal", !.failed = "start"]]
  /\ UNCHANGED <<restVars, processUp>>

\* one getServiceState of the polling loop settles: running, failed or an
\* elapsed time over HEALTH_CHECK_TIMEOUT_MS return the state; otherwise
\* attempts++ and the loop awaits its 500 ms timer
RestartHealthSample(i, status, timedOut) ==
  /\ processUp
  /\ restarts[i].pc = "polling"
  /\ restarts' = [restarts EXCEPT ![i] =
        IF status \in {"running", "failed"} \/ timedOut
          THEN HealthReturned(@, status)
          ELSE [@ EXCEPT !.attempts = @ + 1, !.pc = "sleeping"]]
  /\ UNCHANGED <<restVars, processUp>>

\* the 500 ms timer fires: while (attempts < HEALTH_CHECK_MAX_ATTEMPTS) samples
\* again, and after the loop the final getServiceState is awaited
RestartSleepDone(i) ==
  /\ processUp
  /\ restarts[i].pc = "sleeping"
  /\ restarts' = [restarts EXCEPT ![i].pc =
        IF restarts[i].attempts < HEALTH_CHECK_MAX_ATTEMPTS THEN "polling" ELSE "finalSample"]
  /\ UNCHANGED <<restVars, processUp>>

\* the final getServiceState settles and pollForHealthyState returns it
RestartFinalSample(i, status) ==
  /\ processUp
  /\ restarts[i].pc = "finalSample"
  /\ restarts' = [restarts EXCEPT ![i] = HealthReturned(@, status)]
  /\ UNCHANGED <<restVars, processUp>>

\* getJournalLogs settles (it catches its own errors): yield error, the
\* generator returns, the handler writes done and ends the reply
RestartJournalSettled(i) ==
  /\ processUp
  /\ restarts[i].pc = "journal"
  /\ restarts' = [restarts EXCEPT ![i].pc = "ended",
                                   ![i].frames = @ \o <<ProgressFrame("error"), DoneFrame>>]
  /\ UNCHANGED <<restVars, processUp>>

\* restartDashboardWithDelay: the 1000 ms timer of the countdown fires; the
\* loop yields stopping again, or after the last second the generator yields
\* starting, sets the 500 ms timer of the restart and returns, and the handler
\* writes done and ends the reply
RestartCountdownTick(i) ==
  /\ processUp
  /\ restarts[i].pc = "countdown"
  /\ restarts' = [restarts EXCEPT ![i] =
        IF @.countdown - 1 > 0
          THEN [@ EXCEPT !.countdown = @ - 1, !.frames = @ \o <<ProgressFrame("stopping")>>]
          ELSE [@ EXCEPT !.countdown = 0, !.pc = "ended", !.restartTimer = TRUE,
                         !.frames = @ \o <<ProgressFrame("starting"), DoneFrame>>]]
  /\ UNCHANGED <<restVars, processUp>>

\* the restart timer fires: await execAsync('systemctl restart
\* mithrandir-admin.service') inside the timer callback; a rejection there is
\* handled by nobody
RestartDashboardFires(i, ok, dies) ==
  /\ processUp
  /\ restarts[i].restartTimer
  /\ restarts' = [restarts EXCEPT ![i].restartTimer = FALSE]
  /\ processUp' = (ok \/ ~dies)
  /\ UNCHANGED restVars

\* ---------------------------------------------------------------------------
\* the system
\* ---------------------------------------------------------------------------

\* createServer() has run initializeReconciliation outside test mode: the store
\* is open with both tables and the trigger, and the polling timer is set.
Init ==
  /\ clients = <<>>
  /\ nextClient = 0
  /\ dbOpen = TRUE
  /\ command_audit = {}
  /\ discrepancy_event = {}
  /\ nextUuid = 1
  /\ cmds = <<>>
  /\ polls = <<>>
  /\ timers = {1}
  /\ pollingInterval = 1
  /\ lastPollPub = [cycle |-> 0, pub |-> NoPub]
  /\ processUp = TRUE
  /\ deleteLog = [count |-> 0, matched |-> FALSE, before |-> 0, after |-> 0,
                  kept |-> TRUE, error |-> NoError]
  /\ streams = <<>>
  /\ lastBeat = [client |-> 0, open |-> TRUE]
  /\ now = 0
  /\ shuttingDown = FALSE
  /\ session = NoSession
  /\ callLog = NoCall
  /\ restarts = <<>>

\* the position of the client whose sse() throws during a broadcast, 0 for none
ThrowChoices == 0..Len(clients)

\* the same for a caller that only learns whether broadcast() threw
ThrowOrNot == {k \in ThrowChoices : k <= 1}

HubNext ==
  \/ SseConnect
  \/ \E c \in 1..MaxClients : SseDisconnect(c)

\* the command pipeline: POST /commands/run, the hub and the audit store
CommandNext ==
  \/ \E body \in RequestBodies,
        tq \in ThrowOrNot, tr \in ThrowOrNot, te \in ThrowOrNot, dies \in BOOLEAN :
       PostCommandsRun(body.commandId, body.command, body.target, tq, tr, te, dies)
  \/ \E i \in 1..Len(cmds), ts \in ThrowOrNot, te \in ThrowOrNot, dies \in BOOLEAN :
       CommandWorkDone(i, ts, te, dies)
  \/ CloseDatabase
  \/ HubNext

\* the audit store under the statements the command runner and an operator
\* with the store handle issue
StoreNext ==
  \/ \E body \in RequestBodies :
       PostCommandsRun(body.commandId, body.command, body.target, 0, 0, 0, TRUE)
  \/ \E i \in 1..Len(cmds) : CommandWorkDone(i, 0, 0, TRUE)
  \/ \E id \in 1..nextUuid : DeleteCommandAudit(id)
  \/ \E id \in 1..nextUuid, outcome \in {"success", "failure"} : FinalizeAgain(id, outcome)
  \/ \E id \in 1..MaxCmds + 1, outcome \in {"success", "failure"} : FinalizeUnknown(id, outcome)
  \/ CloseDatabase

\* the reconciliation poller, the hub and the audit store
PollerNext ==
  \/ \E t \in timers : PollTick(t)
  \/ \E j \in 1..Len(polls), ok \in BOOLEAN, s \in Samples, tb \in ThrowChoices, dies \in BOOLEAN :
       PollResponse(j, ok, s.jobs, s.latency, tb, dies)
  \/ StopPolling
  \/ CloseDatabase
  \/ HubNext

\* commands whose broadcasts all return, beside the closing of the store and
\* the shutdown of the process
FinalizeNext ==
  \/ \E body \in RequestBodies :
       PostCommandsRun(body.commandId, body.command, body.target, 0, 0, 0, TRUE)
  \/ \E i \in 1..Len(cmds) : CommandWorkDone(i, 0, 0, TRUE)
  \/ CloseDatabase
  \/ ShutdownSignal
  \/ ShutdownExit
  \/ HubNext

\* the delegated operation terminates: while the process runs, the 2000 ms
\* timer runCommand awaits fires and runCommand continues
WorkTerminates == WF_vars(\E i \in 1..MaxCmds : i <= Len(cmds) /\ CommandWorkDone(i, 0, 0, TRUE))

\* the polling timers under initializeReconciliation and stopPolling
TimersNext ==
  \/ InitializeReconciliation
  \/ StopPolling
  \/ CloseDatabase
  \/ \E t \in timers : PollTick(t)
  \/ \E j \in 1..Len(polls), s \in Samples : PollResponse(j, TRUE, s.jobs, s.latency, 0, TRUE)

\* the restart streams
RestartNext ==
  \/ \E id \in ServiceIds : RestartStreamOpen(id)
  \/ \E i \in 1..Len(restarts), status \in ServiceStatuses : RestartBeforeState(i, status)
  \/ \E i \in 1..Len(restarts), outcome \in {"ok", "failed", "killed"} : RestartStopSettled(i, outcome)
  \/ \E i \in 1..Len(restarts), ok \in BOOLEAN : RestartStartSettled(i, ok)
  \/ \E i \in 1..Len(restarts), status \in ServiceStatuses, timedOut \in BOOLEAN :
       RestartHealthSample(i, status, timedOut)
  \/ \E i \in 1..Len(restarts) : RestartSleepDone(i)
  \/ \E i \in 1..Len(restarts), status \in ServiceStatuses : RestartFinalSample(i, status)
  \/ \E i \in 1..Len(restarts) : RestartJournalSettled(i)
  \/ \E i \in 1..Len(restarts) : RestartCountdownTick(i)
  \/ \E i \in 1..Len(restarts), ok \in BOOLEAN, dies \in BOOLEAN : RestartDashboardFires(i, ok, dies)

SpecCommands == Init /\ [][CommandNext]_vars

SpecRestart == Init /\ [][RestartNext]_vars

SpecTimers == Init /\ [][TimersNext]_vars

SpecFinalize == Init /\ [][FinalizeNext]_vars /\ WorkTerminates

SpecStore == Init /\ [][StoreNext]_vars

SpecPoller == Init /\ [][PollerNext]_vars

\* GET /reconciliation/stream: connections, their heartbeats and the poller's
\* broadcasts
StreamNext ==
  \/ HubNext
  \/ \E c \in 1..MaxClients : SseHeartbeat(c)
  \/ \E c \in 1..MaxClients : SseRemoveUnregistered(c)
  \/ \E t \in timers : PollTick(t)
  \/ \E j \in 1..Len(polls), s \in Samples : PollResponse(j, TRUE, s.jobs, s.latency, 0, TRUE)

SpecStream == Init /\ [][StreamNext]_vars

\* the poller sampling an upstream whose job list varies from cycle to cycle
ChecksumNext ==
  \/ \E t \in timers : PollTick(t)
  \/ \E j \in 1..Len(polls), jobs \in ObservedLists : PollResponse(j, TRUE, jobs, 3, 0, TRUE)

SpecChecksum == Init /\ [][ChecksumNext]_vars

\* the rows an ordered request for q can come back with
EngineOrders(q) ==
  OrderedResults(Matching(command_audit, q), AuditSql(q).orderBy, AuditSql(q).direction)

\* the audit query service: commands fill the table over some seconds, then a
\* client pages through a result while the table stays as it is, the engine
\* ordering the rows of every page as it ordered them for the first
AuditNext ==
  \/ /\ ~session.open
     /\ \E body \in RequestBodies :
           PostCommandsRun(body.commandId, body.command, body.target, 0, 0, 0, TRUE)
  \/ /\ ~session.open
     /\ \E i \in 1..Len(cmds) : CommandWorkDone(i, 0, 0, TRUE)
  \/ /\ ~session.open
     /\ ClockTick
  \/ \E q \in Queries : \E ord \in EngineOrders(q) : AuditRequest(q, ord)
  \/ /\ session.open
     /\ Len(session.pages) < session.meta.totalPages
     /\ AuditRequest([session.query EXCEPT !.page = @ + 1], session.order)

SpecAudit == Init /\ [][AuditNext]_vars

\* the poller and its table over the life of the process, up to shutdown
LifecycleNext ==
  \/ \E t \in timers : PollTick(t)
  \/ \E j \in 1..Len(polls), ok \in BOOLEAN, s \in Samples : PollResponse(j, ok, s.jobs, s.latency, 0, TRUE)
  \/ \E id \in 1..nextUuid : DeleteDiscrepancyEvent(id)
  \/ ShutdownSignal
  \/ ShutdownExit

SpecLifecycle == Init /\ [][LifecycleNext]_vars

\* ---------------------------------------------------------------------------
\* properties
\* ---------------------------------------------------------------------------

CmdIdx == 1..Len(cmds)
PollIdx == 1..Len(polls)

\* runCommand invocation i has returned or thrown
CmdEnded(i) == cmds[i].pc \in {"resolved", "rejected"}

\* the statements of invocation i that ran, by kind
RanOk(i, op) == {k \in 1..Len(cmds[i].trace) : cmds[i].trace[k].op = op /\ cmds[i].trace[k].ok}

\* a store statement of invocation i failed
StoreFailed(i) ==
  \E k \in 1..Len(cmds[i].trace) :
     cmds[i].trace[k].op \in {"insert", "update"} /\ ~cmds[i].trace[k].ok

\* a broadcast call of invocation i threw
PublishFailed(i) ==
  \E k \in 1..Len(cmds[i].trace) : cmds[i].trace[k].op = "publish" /\ ~cmds[i].trace[k].ok

\* the outcome stored for invocation i, "" when it has no row
RowOutcome(i) ==
  IF \E r \in command_audit : r.id = cmds[i].auditId
    THEN (CHOOSE r \in command_audit : r.id = cmds[i].auditId).outcome
    ELSE ""

\* C1: a DELETE that matches a command_audit row fails with an explicit error
\* and leaves the table as it was (same row count, every row still there).
C1_AppendOnly ==
  (deleteLog.count > 0 /\ deleteLog.matched) =>
     /\ deleteLog.error # NoError
     /\ deleteLog.before = deleteLog.after
     /\ deleteLog.kept

C1_Witness ==
  /\ deleteLog.count > 0
  /\ deleteLog.matched
  /\ deleteLog.error = ErrDeleteForbidden
  /\ deleteLog.after > 0

\* C2: once the running row is inserted, a throwing broadcast does not keep the
\* row from being finalized: when the invocation has ended and no store
\* statement failed, the row holds a terminal outcome.
C2_FinalizedDespitePublishFailure ==
  \A i \in CmdIdx :
     (CmdEnded(i) /\ RanOk(i, "insert") # {} /\ ~StoreFailed(i)) =>
        RowOutcome(i) \in TerminalOutcomes

\* C3: every ended runCommand invocation ran exactly one INSERT and exactly
\* one finalizing UPDATE (the store accepting every statement it is given).
C3_SingleFinalize ==
  \A i \in CmdIdx :
     (CmdEnded(i) /\ ~StoreFailed(i)) =>
        /\ Cardinality(RanOk(i, "insert")) = 1
        /\ Cardinality(RanOk(i, "update")) = 1

\* C4: at most one poll cycle is executing at any time.
C4_NoOverlappingCycles ==
  Cardinality({j \in PollIdx : polls[j].pc = "sampling"}) <= 1

\* C5: a subscriber whose delivery throws does not keep the event from the
\* other registered subscribers, and the failure does not reach the publisher.
C5_SubscriberIsolation ==
  lastPollPub.pub.event # "" =>
     /\ \A c \in SeqToSet(lastPollPub.pub.regs) :
           c # lastPollPub.pub.failed =>
              \E k \in 1..Len(lastPollPub.pub.sentTo) : lastPollPub.pub.sentTo[k].client = c
     /\ ~lastPollPub.pub.threw
     /\ polls[lastPollPub.cycle].error # ErrSse

\* C6: every broadcast of a command follows its store write: phase running is
\* published after the INSERT ran, a terminal phase after the UPDATE ran.
C6_WriteBeforePublish ==
  \A i \in CmdIdx :
     \A k \in 1..Len(cmds[i].trace) :
        LET e == cmds[i].trace[k]
        IN /\ (e.op = "publish" /\ e.phase = "running") =>
                 \E m \in RanOk(i, "insert") : m < k
           /\ (e.op = "publish" /\ e.phase \in {"success", "error"}) =>
                 \E m \in RanOk(i, "update") : m < k

\* C7: when the delegated operation completed without raising, the row is
\* finalized with outcome success, whether or not a broadcast call threw.
C7_OutcomeIsOperationResult ==
  \A i \in CmdIdx :
     (CmdEnded(i) /\ cmds[i].opCompleted /\ ~StoreFailed(i)) =>
        RowOutcome(i) = "success"

\* C8: a poll cycle that leaves its await ends as done or failed inside the
\* cycle: the process stays up and the set of timers is untouched.
C8_PollFailureIsolated ==
  [][\A j \in PollIdx :
        (polls[j].pc = "sampling" /\ polls'[j].pc # "sampling") =>
           /\ polls'[j].pc \in {"done", "failed"}
           /\ processUp'
           /\ timers' = timers]_vars

\* a cycle failed, the timer kept firing, and a cycle started after the
\* failure completed
C8_Witness ==
  \E j \in PollIdx, k \in PollIdx :
     /\ j < k
     /\ polls[j].pc = "failed"
     /\ polls[k].failedBefore > 0
     /\ polls[k].pc = "done"
     /\ processUp
     /\ timers # {}

\* C9: a failure inside runCommand stays inside it: the HTTP caller gets its
\* 202, no rejection escapes runCommand and the process stays up.
C9_CommandFailureContained ==
  /\ processUp
  /\ \A i \in CmdIdx : cmds[i].reply = 202 /\ cmds[i].pc # "rejected"

\* C10: one broadcast reaches every subscriber registered at the call exactly
\* once, in the same tagged payload, and nobody else.
C10_DeliveredToAllRegistered ==
  lastPollPub.pub.event # "" =>
     /\ Len(lastPollPub.pub.sentTo) = Len(lastPollPub.pub.regs)
     /\ \A k \in 1..Len(lastPollPub.pub.sentTo) :
           /\ lastPollPub.pub.sentTo[k].client = lastPollPub.pub.regs[k]
           /\ lastPollPub.pub.sentTo[k].event = "reconciliation.update"
           /\ lastPollPub.pub.sentTo[k].data = Stringify(lastPollPub.pub.data)

\* the row stored for poll cycle j
EventRows(j) == {r \in discrepancy_event : r.id = polls[j].eventId}

\* the broadcast calls of poll cycle j
PollPublishes(j) == {k \in 1..Len(polls[j].trace) : polls[j].trace[k].op = "publish"}

\* the INSERT of poll cycle j ran
PollInserted(j) ==
  \E k \in 1..Len(polls[j].trace) : polls[j].trace[k].op = "insert" /\ polls[j].trace[k].ok

\* C11: a poll cycle whose upstream query and INSERT succeeded stored exactly
\* one discrepancy_event row and then made exactly one broadcast call, of event
\* reconciliation.update, whose payload has the id, service, status, counts,
\* checksum and latency of that row; a cycle whose INSERT failed made none.
C11_OneEventStoredThenPublished ==
  /\ \A j \in PollIdx :
        /\ (polls[j].pc # "sampling" /\ PollInserted(j)) =>
              /\ Cardinality(EventRows(j)) = 1
              /\ Len(polls[j].trace) = 2
              /\ polls[j].trace[1] = InsertEntry(TRUE)
              /\ polls[j].trace[2].op = "publish"
        /\ (polls[j].pc # "sampling" /\ ~PollInserted(j)) => PollPublishes(j) = {}
  /\ lastPollPub.cycle # 0 =>
        IF PollInserted(lastPollPub.cycle)
          THEN /\ lastPollPub.pub.event = "reconciliation.update"
               /\ \E r \in EventRows(lastPollPub.cycle) :
                     /\ lastPollPub.pub.data.id = r.id
                     /\ lastPollPub.pub.data.service = r.service
                     /\ lastPollPub.pub.data.status = r.status
                     /\ lastPollPub.pub.data.counts_json = r.counts_json
                     /\ lastPollPub.pub.data.checksum = r.checksum
                     /\ lastPollPub.pub.data.latency_ms = r.latency_ms
          ELSE lastPollPub.pub = NoPub

\* both kinds of cycle have happened: one stored its event and published it,
\* a later one failed at the INSERT and published nothing
C11_Witness ==
  \E j \in PollIdx, k \in PollIdx :
     /\ polls[k].pc = "done" /\ PollInserted(k)
     /\ \E r \in EventRows(k) : r.latency_ms > 0
     /\ polls[j].pc = "failed" /\ polls[j].trace = <<InsertEntry(FALSE)>>
     /\ lastPollPub = [cycle |-> j, pub |-> NoPub]

\* the position of the HTTP reply among the steps of invocation i
ReplyAt(i) == {k \in 1..Len(cmds[i].trace) : cmds[i].trace[k].op = "reply"}

\* the steps of invocation i that publish a terminal phase or finalize the row
TerminalSteps(i) ==
  {k \in 1..Len(cmds[i].trace) :
     \/ cmds[i].trace[k].op = "publish" /\ cmds[i].trace[k].phase \in {"success", "error"}
     \/ cmds[i].trace[k].op = "update"}

\* C12: every POST /commands/run is answered 202 with status queued, and the
\* answer is produced before the command's terminal phase is published and
\* before its audit row is finalized.
C12_RepliesBeforeTerminal ==
  \A i \in CmdIdx :
     /\ cmds[i].reply = 202
     /\ \E k \in ReplyAt(i) :
           /\ cmds[i].trace[k].outcome = "queued"
           /\ \A m \in TerminalSteps(i) : k < m

\* C13: the outcome of a command_audit row changes only from running to a
\* terminal value; a row that holds a terminal outcome keeps its outcome and
\* its logs, also when it is finalized a second time with another outcome.
C13_TerminalOutcomeIsFinal ==
  [][\A r \in command_audit :
        r.outcome \in TerminalOutcomes => r \in command_audit']_vars

\* the phases of invocation i whose broadcast call returned, in program order
PhasesPublished(i) ==
  LET pubs == SelectSeq(cmds[i].trace, LAMBDA e : e.op = "publish" /\ e.ok)
  IN [k \in 1..Len(pubs) |-> pubs[k].phase]

\* the place of a phase in the lifecycle; both terminal phases share the last
PhaseRank == [queued |-> 1, running |-> 2, success |-> 3, error |-> 3]

\* C14: the phases published for one command come in the order queued,
\* running, terminal; at most one terminal phase is published (never both
\* success and error) and nothing after it; an invocation that returned
\* with every broadcast delivered has published all three.
C14_PhaseOrder ==
  \A i \in CmdIdx :
     LET p == PhasesPublished(i)
     IN /\ \A a \in 1..Len(p), b \in 1..Len(p) :
              a < b => PhaseRank[p[a]] < PhaseRank[p[b]]
        /\ (cmds[i].pc = "resolved" /\ ~PublishFailed(i)) => Len(p) = 3

StreamIdx == 1..Len(streams)

\* C15: a connection is registered with the hub exactly while it is open and
\* its heartbeat timer is set exactly that long: once the connection has
\* ended it is out of the registry and its timer is cleared, and every
\* broadcast and every heartbeat is written to a connection that is open.
C15_SubscriberLifetime ==
  [][/\ \A c \in 1..Len(streams') :
           /\ streams'[c].open <=> c \in SeqToSet(clients')
           /\ streams'[c].heartbeat <=> streams'[c].open
     /\ lastPollPub' # lastPollPub =>
           \A k \in 1..Len(lastPollPub'.pub.sentTo) :
              streams[lastPollPub'.pub.sentTo[k].client].open
     /\ lastBeat' # lastBeat => lastBeat'.open]_vars

\* connection c has ended; after that a broadcast went to the later connection
\* d only, and d got a heartbeat
C15_Witness ==
  \E c \in StreamIdx, d \in StreamIdx :
     /\ c < d
     /\ ~streams[c].open /\ ~streams[c].heartbeat /\ c \notin SeqToSet(clients)
     /\ lastPollPub.pub.regs = <<d>>
     /\ Len(lastPollPub.pub.sentTo) = 1
     /\ lastBeat.client = d

\* C16: once shutdown has begun no poll cycle starts.
C16_NoCycleAfterShutdown ==
  \A j \in PollIdx : ~polls[j].inShutdown

\* C20: a discrepancy_event row, once stored, stays in the table unchanged:
\* no statement deletes or alters it.
C20_EventsImmutable ==
  [][\A r \in discrepancy_event : r \in discrepancy_event']_vars

RECURSIVE Concat(_)
\* the pages of a pass, one after the other
Concat(pages) == IF pages = <<>> THEN <<>> ELSE Head(pages) \o Concat(Tail(pages))

\* the client has fetched pages 1..totalPages
PassComplete == session.open /\ Len(session.pages) = session.meta.totalPages

C18_SortAllowList ==
  [][session' # session =>
       /\ session'.sql.orderBy \in ALLOWED_SORT_COLUMNS
       /\ session'.sql.direction \in ALLOWED_SORT_ORDERS
       /\ session'.sql.orderBy =
            IF session'.query.sortBy \in ALLOWED_SORT_COLUMNS
              THEN session'.query.sortBy ELSE "timestamp"
       /\ session'.sql.direction =
            IF session'.query.sortOrder \in ALLOWED_SORT_ORDERS
              THEN session'.query.sortOrder ELSE "desc"
       /\ LET page == session'.pages[Len(session'.pages)]
          IN \A a \in 1..Len(page), b \in 1..Len(page) :
                a < b =>
                  IF session'.sql.direction = "asc"
                    THEN TextLeq(ColumnKey(page[a], session'.sql.orderBy),
                                 ColumnKey(page[b], session'.sql.orderBy))
                    ELSE TextLeq(ColumnKey(page[b], session'.sql.orderBy),
                                 ColumnKey(page[a], session'.sql.orderBy))
       /\ command_audit' = command_audit]_vars

\* a request with a sortBy and a sortOrder outside the allow-lists was answered
\* with two rows of different timestamps, newest first
C18_Witness ==
  /\ session.open
  /\ session.query.sortBy \notin ALLOWED_SORT_COLUMNS
  /\ session.query.sortOrder \notin ALLOWED_SORT_ORDERS
  /\ Len(session.pages[1]) = 2
  /\ TextLess(session.pages[1][2].timestamp, session.pages[1][1].timestamp)

\* the rows a request asks for: those with the requested action type and
\* target whose creation instant lies between the two bounds, bounds included
Requested(rows, q) ==
  {r \in rows :
     /\ q.actionType # NoFilter => r.action_type = q.actionType
     /\ q.target # NoFilter => r.target = q.target
     /\ q.startDate # NoDate => InstantOf(q.startDate) <= InstantOf(r.timestamp)
     /\ q.endDate # NoDate => InstantOf(r.timestamp) <= InstantOf(q.endDate)}

\* C19: a request returns rows that satisfy all its filters together, bounds
\* included, and meta.total is the number of such rows whatever the page and
\* the limit; a request whose limit covers the result returns all of them.
C19_FiltersConjoined ==
  session.open =>
     /\ session.meta.total = Cardinality(Requested(command_audit, session.query))
     /\ SeqToSet(Concat(session.pages)) \subseteq Requested(command_audit, session.query)
     /\ (Len(session.pages) = 1 /\ session.meta.total <= session.meta.limit) =>
           Requested(command_audit, session.query) \subseteq SeqToSet(session.pages[1])

RECURSIVE TallyOf(_, _)
\* how many jobs of a list carry a status
TallyOf(jobs, status) ==
  IF jobs = <<>> THEN 0
  ELSE (IF Head(jobs) = status THEN 1 ELSE 0) + TallyOf(Tail(jobs), status)

\* the counts a stored row holds, read back from counts_json
StoredCounts(r) == r.counts_json[2]

\* C21: the row of a successful poll cycle over job list L has status verified
\* and counts that are the tally of L per status (and its length as total);
\* no row of discrepancy_event has status stale or discrepancy.
C21_CountsAreTally ==
  /\ \A r \in discrepancy_event : r.status = "verified"
  /\ \A j \in PollIdx :
        PollInserted(j) =>
           \A r \in EventRows(j) :
              /\ StoredCounts(r).completed = TallyOf(polls[j].jobs, "completed")
              /\ StoredCounts(r).failed = TallyOf(polls[j].jobs, "failed")
              /\ StoredCounts(r).pending = TallyOf(polls[j].jobs, "pending")
              /\ StoredCounts(r).total = Len(polls[j].jobs)

\* a cycle over [completed, failed, pending] stored counts 1, 1, 1 of 3
C21_Witness ==
  \E j \in PollIdx :
     /\ polls[j].pc = "done"
     /\ polls[j].jobs = <<"completed", "failed", "pending">>
     /\ \E r \in EventRows(j) :
           /\ r.status = "verified"
           /\ StoredCounts(r) = [total |-> 3, completed |-> 1, failed |-> 1, pending |-> 1]

\* the checksum stored for poll cycle j
StoredChecksum(j) == (CHOOSE r \in EventRows(j) : TRUE).checksum

C23_ClosedStoreNotInitialized ==
  \A j \in PollIdx :
     (polls[j].pc # "sampling" /\ polls[j].trace = <<InsertEntry(FALSE)>>) =>
        polls[j].error = ErrNotInitialized

\* C24: removing a handle that is not registered leaves the registry and the
\* client count as they were, and the next broadcast still reaches every
\* registered subscriber.
C24_RemoveIsIdempotent ==
  callLog.op = "removeSseClient" =>
     /\ callLog.error = NoError
     /\ callLog.after = callLog.before
     /\ callLog.countAfter = callLog.countBefore
     /\ BroadcastReach(callLog.after, 0) = BroadcastReach(callLog.before, 0)

\* connection c was removed at its end and then removed once more while d was
\* registered; d is still registered and got the broadcast that followed
C24_Witness ==
  \E c \in StreamIdx, d \in StreamIdx :
     /\ c # d
     /\ ~streams[c].open
     /\ callLog.op = "removeSseClient" /\ callLog.arg = c
     /\ d \in SeqToSet(callLog.before)
     /\ d \in SeqToSet(clients)
     /\ \E k \in 1..Len(lastPollPub.pub.sentTo) : lastPollPub.pub.sentTo[k].client = d

\* C25: the finalizing UPDATE for an id that has no row raises no error,
\* creates no row and changes none.
C25_FinalizeUnknownIsNoOp ==
  callLog.op = "finalize" =>
     /\ callLog.error = NoError
     /\ callLog.rowsKept
     /\ callLog.countAfter = callLog.countBefore

\* the statement ran for a missing id while the table held a running row and
\* a terminal row, both still as they were
C25_Witness ==
  /\ callLog.op = "finalize"
  /\ ~\E r \in command_audit : r.id = callLog.arg
  /\ \E r \in command_audit : r.outcome = "running"
  /\ \E r \in command_audit : r.outcome = "success"

\* C26: every command_audit row inserted with outcome running is eventually
\* updated to a terminal outcome, given that the delegated operation terminates,
\* also when the store is closed or the process shuts down between the insert
\* and the finalize.
C26_RunningRowsFinalized ==
  \A id \in 1..MaxCmds :
     (\E r \in command_audit : r.id = id /\ r.outcome = "running")
        ~> (\E r \in command_audit : r.id = id /\ r.outcome \in TerminalOutcomes)

\* the outcome that answers to a terminal phase
OutcomeOfPhase == [success |-> "success", error |-> "failure"]

\* the logs a terminal event of invocation i carries
LogsOfPhase(i, phase) ==
  IF phase = "success" THEN {SuccessLogs(cmds[i].command)}
  ELSE {FailureLogs(cmds[i].command, m) : m \in {ErrSse, ErrDbClosed}}

\* C27: for an invocation that has ended, a terminal phase that was published
\* answers to the outcome stored in its audit row (success with success, error
\* with failure), and the stored logs are the logs that event carried.
C27_BroadcastAndStoreAgree ==
  \A i \in CmdIdx :
     CmdEnded(i) =>
        \A k \in RanOk(i, "publish") :
           LET phase == cmds[i].trace[k].phase
           IN phase \in {"success", "error"} =>
                 \E r \in command_audit :
                    /\ r.id = cmds[i].auditId
                    /\ r.outcome = OutcomeOfPhase[phase]
                    /\ \E logs \in LogsOfPhase(i, phase) : r.logs_json = Stringify(logs)

\* C28: whenever POST /commands/run has answered 202 queued for a command, a
\* command_audit row of that command, running or terminal, is in the store.
C28_AcknowledgedIsAudited ==
  \A i \in CmdIdx :
     ReplyAt(i) # {} =>
        \E r \in command_audit :
           /\ r.id = cmds[i].auditId
           /\ r.action_type = cmds[i].command
           /\ r.outcome \in {"running"} \cup TerminalOutcomes

\* C29: at most one polling timer is active at any time, however many times
\* initializeReconciliation is called, and once stopPolling has cleared the
\* current interval no poll cycle starts.
C29_SinglePollerTimer ==
  /\ [](Cardinality(timers) <= 1)
  /\ [][pollingInterval \notin timers => Len(polls') = Len(polls)]_vars

RestartIdx == 1..Len(restarts)

\* the phases of the restart-progress frames written to stream i, in order
Phases(i) ==
  LET f == SelectSeq(restarts[i].frames, LAMBDA x : x.event = "restart-progress")
  IN [k \in 1..Len(f) |-> f[k].phase]

\* the place of a phase in the restart sequence; both terminal phases share the last
RestartRank ==
  ("stopping" :> 1) @@ ("starting" :> 2) @@ ("health-check" :> 3) @@ ("success" :> 4) @@ ("error" :> 4)

\* stream i follows the restart sequence: phases in order, nothing after a
\* terminal phase but done, and once the reply has ended exactly one terminal
\* phase, which is success only after a health check that saw the service running
RestartSequenceOk(i) ==
  LET r == restarts[i]
      p == Phases(i)
      n == Len(p)
      f == r.frames
  IN /\ \A a \in 1..n, b \in 1..n :
           a < b => RestartRank[p[a]] <= RestartRank[p[b]] /\ RestartRank[p[a]] < 4
     /\ \A k \in 1..Len(f) :
           /\ f[k].event = "done" => k = Len(f)
           /\ f[k].phase \in {"success", "error"} =>
                 \/ k = Len(f)
                 \/ k = Len(f) - 1 /\ f[Len(f)] = DoneFrame
     /\ r.pc = "ended" => n >= 1 /\ p[n] \in {"success", "error"}
     /\ (n >= 1 /\ p[n] = "success") =>
           r.after = "running" /\ p = <<"stopping", "starting", "health-check", "success">>
     /\ (r.pc = "ended" /\ r.failed = "stop") => p = <<"stopping", "error">>
     /\ (r.pc = "ended" /\ r.failed = "start") => p = <<"stopping", "starting", "error">>
     /\ (r.pc = "ended" /\ r.failed = "health") =>
           r.after # "running" /\ p = <<"stopping", "starting", "health-check", "error">>

\* C30 as stated: for every requested service id the restart-progress events
\* come in the order stopping, starting, health-check and end with exactly one
\* terminal phase, success only if the service was seen running after the
\* health check; a failed stop or start skips to a single error; nothing
\* follows the terminal phase but the done event.
C30_RestartProgressSequence ==
  \A i \in RestartIdx : RestartSequenceOk(i)

\* C30 amended: the sequence holds for every requested id other than
\* mithrandir-admin; the stream of mithrandir-admin carries one stopping event
\* per second of the countdown, then starting, then done, and no terminal phase.
C30_RestartSequenceButDashboard ==
  \A i \in RestartIdx :
     /\ restarts[i].id # "mithrandir-admin" => RestartSequenceOk(i)
     /\ (restarts[i].id = "mithrandir-admin" /\ restarts[i].pc = "ended") =>
           /\ Phases(i) = [k \in 1..DashboardDelaySeconds + 1 |->
                              IF k <= DashboardDelaySeconds THEN "stopping" ELSE "starting"]
           /\ restarts[i].frames[Len(restarts[i].frames)] = DoneFrame

\* a listed service was restarted, seen running only at a later sample of the
\* health check, and its stream has ended
C30_Witness ==
  \E i \in RestartIdx :
     /\ restarts[i].id = "transcription-palantir"
     /\ restarts[i].pc = "ended"
     /\ restarts[i].attempts >= 1
     /\ restarts[i].after = "running"
     /\ restarts[i].frames[Len(restarts[i].frames)] = DoneFrame

====
